---------------------------- MODULE Spec2Model ----------------------------
(***************************************************************************)
(* blogger2hugo (src/main.go): conversion of a Blogger export feed into    *)
(* Hugo content files.  The model follows main(): the feed is unmarshalled *)
(* into exp.Entries, a first loop builds postmap and the Reply field, a    *)
(* second loop builds the comment hierarchy (Children) and writes the      *)
(* comment files, a third loop flattens each post's tree with treeSort and *)
(* writes the post files.                                                  *)
(*                                                                         *)
(* Entries are indexed 1..Len(entries) (Go: 0..len-1).                     *)
(*                                                                         *)
(* Strings are modelled by what the program does with them:                *)
(*   - a text that strconv.ParseUint reads is a natural number (its        *)
(*     value), any other text is NaN;                                      *)
(*   - an entry ID is [marker, tail]: marker says whether the ID contains  *)
(*     "post-", tail is the text after the last "post-" (the whole ID      *)
(*     when there is no marker);                                           *)
(*   - a link is [Rel, Link] with Link the text path.Base gives.           *)
(*                                                                         *)
(* Writing a file is taken to succeed: writeComment's error is dropped by  *)
(* main, and writeEntry's failure (log.Fatalf) is an I/O fault outside the *)
(* feed.  A written file is recorded by the entry it was written for.      *)
(***************************************************************************)
EXTENDS Integers, Sequences, FiniteSets, TLC

VARIABLES
    input,        \* the entries as xml.Unmarshal produced them (never changed)
    entries,      \* exp.Entries
    postmap,      \* postmap: numeric identifier -> entry index
    pc,           \* position of main
    k,            \* index of the entry the current loop is at
    comments,     \* entries writeComment was called for, in call order
    posts,        \* the records writeEntry was called for, in call order
    log,          \* lines printed by the loops
    count,        \* published posts written
    drafts        \* drafts written

vars == <<input, entries, postmap, pc, k, comments, posts, log, count, drafts>>

-----------------------------------------------------------------------------
(* Bounds of the model and the input alphabet.                             *)

MaxEntries == 3

NaN == -1

KindScheme == "http://schemas.google.com/g/2005#kind"
KindPost == "http://schemas.google.com/blogger/2008/kind#post"
KindComment == "http://schemas.google.com/blogger/2008/kind#comment"
KindTemplate == "http://schemas.google.com/blogger/2008/kind#template"

Kind(name) == [Name |-> name, Scheme |-> KindScheme]

\* Publication instants.
Times == {1, 2}

Related(n) == [Rel |-> "related", Link |-> n]

PostID(t) == [marker |-> TRUE, tail |-> t]
RawID(t) == [marker |-> FALSE, tail |-> t]

ParsedEntry(id, pub, draft, tags, links, src) ==
    [ID |-> id, Published |-> pub, Draft |-> draft, Tags |-> tags,
     Links |-> links, Source |-> src]

\* The entries a feed is made of.  Fields the program never reads for an
\* entry of that tag list (Published and the parent references of an entry
\* without a comment tag, Draft of an entry without a post tag) are fixed.
\* Links other than "related" ones are left out of the feeds.
PostShapes ==
    { ParsedEntry(PostID(1), 1, FALSE, <<Kind(KindPost)>>, <<>>, NaN),
      ParsedEntry(PostID(1), 1, TRUE, <<Kind(KindPost)>>, <<>>, NaN),
      ParsedEntry(PostID(2), 1, FALSE, <<Kind(KindPost)>>, <<>>, NaN) }

UntaggedShapes ==
    { ParsedEntry(id, 1, FALSE, <<>>, <<>>, NaN) :
        id \in {PostID(1), PostID(NaN)} }

TemplateShapes ==
    { ParsedEntry(PostID(1), 1, FALSE, tags, <<>>, NaN) :
        tags \in { <<Kind(KindTemplate)>>,
                   <<Kind(KindTemplate), Kind(KindPost)>> } }

\* A comment names its parent by a "related" link, by the in-reply-to
\* source, or not at all.
ParentRefs ==
    { [Links |-> <<>>, Source |-> NaN],
      [Links |-> <<Related(1)>>, Source |-> NaN],
      [Links |-> <<Related(2)>>, Source |-> NaN],
      [Links |-> <<Related(NaN)>>, Source |-> 1] }

Comment(id, pub, r) ==
    ParsedEntry(id, pub, FALSE, <<Kind(KindComment)>>, r.Links, r.Source)

CommentShapes ==
    { Comment(PostID(2), pub, r) : pub \in Times, r \in ParentRefs }
    \cup { Comment(PostID(3), pub, [Links |-> <<Related(t)>>, Source |-> NaN]) :
             pub \in Times, t \in {1, 2} }
    \cup { Comment(RawID(NaN), 1, [Links |-> <<Related(1)>>, Source |-> NaN]) }

\* An entry tagged both as a post and as a comment, replying to itself.
PostCommentShapes ==
    { ParsedEntry(PostID(1), 1, FALSE, <<Kind(KindPost), Kind(KindComment)>>,
                  <<Related(1)>>, NaN) }

EntryShapes ==
    PostShapes \cup UntaggedShapes \cup TemplateShapes \cup CommentShapes
        \cup PostCommentShapes

Feeds == UNION { [1..n -> EntryShapes] : n \in 0..MaxEntries }

-----------------------------------------------------------------------------
(* Library functions, by what they do on the modelled texts.               *)

\* strconv.ParseUint(s, 10, 64): value and err == nil.
ParseUint(s) ==
    IF s >= 0 THEN [val |-> s, ok |-> TRUE] ELSE [val |-> 0, ok |-> FALSE]

\* strconv.ParseUint of an entry ID: an ID that still holds "post-" and the
\* text before it is no number.
ParseID(id) ==
    IF id.marker THEN [val |-> 0, ok |-> FALSE] ELSE ParseUint(id.tail)

\* strings.LastIndex(ID, "post-") >= 0
HasMarker(id) == id.marker

\* ID[index+5:]
AfterMarker(id) == [marker |-> FALSE, tail |-> id.tail]

HasTag(e, name) ==
    \E i \in 1..Len(e.Tags) :
        e.Tags[i].Name = name /\ e.Tags[i].Scheme = KindScheme

isTemplateNever(e) == FALSE

\* The first loop's tag scan: the first tag of the kind scheme decides.
isTemplate(e) ==
    \E i \in 1..Len(e.Tags) :
        /\ e.Tags[i].Scheme = KindScheme
        /\ \A j \in 1..(i-1) : e.Tags[j].Scheme # KindScheme
        /\ e.Tags[i].Name \notin {KindComment, KindPost}

\* The second loop's tag test.
isComment(e) == HasTag(e, KindComment)

\* The third loop's tag test.
isPost(e) == HasTag(e, KindPost)

\* The link loop of the first pass: every "related" link assigns Reply.
RECURSIVE ReplyAfter(_, _)
ReplyAfter(links, reply) ==
    IF links = <<>> THEN reply
    ELSE ReplyAfter(Tail(links),
                    IF Head(links).Rel = "related"
                    THEN ParseUint(Head(links).Link).val
                    ELSE reply)

\* The parent a comment names: Reply, else the in-reply-to source.
Parent(e) ==
    IF e.Reply # 0 THEN e.Reply ELSE ParseUint(e.Source).val

DeletedNever(parent) == FALSE

\* Line 264: the comment's parent was deleted.
Deleted(parent) == parent = 0

LookupZeroValue(m, parent) ==
    [i |-> IF parent \in DOMAIN m THEN m[parent] ELSE 1, ok |-> TRUE]

\* Line 268: i, ok := postmap[parent]
Lookup(m, parent) ==
    IF parent \in DOMAIN m
    THEN [i |-> m[parent], ok |-> TRUE]
    ELSE [i |-> 0, ok |-> FALSE]

MapPut(m, key, val) ==
    [x \in DOMAIN m \cup {key} |-> IF x = key THEN val ELSE m[x]]

-----------------------------------------------------------------------------

\* A printed line: the message and the entry it is about (0: none).
Line(msg, i) == [msg |-> msg, entry |-> i]

Loaded(e) ==
    [ID |-> e.ID, Published |-> e.Published, Draft |-> e.Draft,
     Tags |-> e.Tags, Links |-> e.Links, Source |-> e.Source,
     Reply |-> 0, Children |-> <<>>]

Init ==
    /\ input \in Feeds
    /\ entries = [i \in DOMAIN input |-> Loaded(input[i])]
    /\ postmap = <<>>
    /\ pc = "start"
    /\ k = 0
    /\ comments = <<>>
    /\ posts = <<>>
    /\ log = <<>>
    /\ count = 0
    /\ drafts = 0

N == Len(entries)

NoPosts == \A i \in 1..N : ~isPost(entries[i])

\* Line 211: len(exp.Entries) < 1
NoEntries == N < 1

writeCommentSkipped(i) == comments

\* writeComment and writeEntry: the files written, in order.
writeComment(i) == Append(comments, i)
writeEntry(e) == Append(posts, e)

\* main, lines 211-215: a feed without entries is fatal.
Start ==
    /\ pc = "start"
    /\ IF NoEntries
       THEN /\ pc' = "fatal"
            /\ log' = Append(log, Line("No blog entries found!", 0))
            /\ k' = k
       ELSE /\ pc' = "index"
            /\ log' = log
            /\ k' = 1
    /\ UNCHANGED <<input, entries, postmap, comments, posts, count, drafts>>

NextLoopEarly(here, there) ==
    IF k = N \/ here = "hierarchy"
    THEN pc' = there /\ k' = 1
    ELSE pc' = here /\ k' = k + 1

\* The loop header: the next entry, or the code after the loop.
NextLoop(here, there) ==
    IF k = N THEN pc' = there /\ k' = 1 ELSE pc' = here /\ k' = k + 1

\* main, lines 218-253: one iteration of the first loop.
IndexEntry ==
    /\ pc = "index"
    /\ LET e == entries[k]
           id == AfterMarker(e.ID)
           p == ParseID(id)
       IN  IF isTemplate(e)
           THEN UNCHANGED <<entries, postmap, log>>
           ELSE /\ entries' =
                    [entries EXCEPT
                        ![k].ID = IF HasMarker(e.ID) THEN id ELSE e.ID,
                        ![k].Reply = ReplyAfter(e.Links, e.Reply)]
                /\ postmap' =
                    IF HasMarker(e.ID) /\ p.ok
                    THEN MapPut(postmap, p.val, k)
                    ELSE postmap
                /\ log' =
                    IF HasMarker(e.ID) /\ ~p.ok
                    THEN Append(log, Line("Can't parse", k))
                    ELSE log
    /\ NextLoop("index", "hierarchy")
    /\ UNCHANGED <<input, comments, posts, count, drafts>>

\* main, lines 256-277: one iteration of the second loop.
BuildHierarchy ==
    /\ pc = "hierarchy"
    /\ LET entry == entries[k]
           parent == Parent(entry)
       IN  IF ~isComment(entry)
           THEN /\ NextLoop("hierarchy", "posts")
                /\ UNCHANGED <<entries, comments, log>>
           ELSE IF Deleted(parent)
           THEN /\ log' = Append(log, Line("Skipping deleted comment", k))
                /\ NextLoop("hierarchy", "posts")
                /\ UNCHANGED <<entries, comments>>
           ELSE IF Lookup(postmap, parent).ok
           THEN /\ entries' =
                    [entries EXCEPT
                        ![Lookup(postmap, parent).i].Children = Append(@, k)]
                /\ comments' = writeComment(k)
                /\ NextLoop("hierarchy", "posts")
                /\ log' = log
           ELSE /\ pc' = "panic"
                /\ log' = Append(log, Line("entry did not exist", k))
                /\ UNCHANGED <<entries, comments, k>>
    /\ UNCHANGED <<input, postmap, posts, count, drafts>>

-----------------------------------------------------------------------------
(* treeSort, lines 151-168.                                                *)

Range(s) == { s[i] : i \in 1..Len(s) }

LessReversed(a, b) == entries[a].Published > entries[b].Published

\* EntrySet.Less
Less(a, b) == entries[a].Published < entries[b].Published

\* sort.Sort(EntrySet(s)).  The library documents sort.Sort as not stable:
\* the result is a permutation in which no element is Less than one before
\* it, and the order of elements neither of which is Less than the other
\* depends on the library version and the length of the slice (up to Go 1.18
\* a shell pass with gap 6 runs on slices of 7 to 12 elements, from Go 1.19
\* pdqsort partitions slices of more than 12), so it is any such order.
SortSort(s) ==
    { p \in [1..Len(s) -> Range(s)] :
        /\ \A i, j \in 1..Len(s) : i # j => p[i] # p[j]
        /\ \A i, j \in 1..Len(s) : i < j => ~Less(p[j], p[i]) }

\* Whether the recursion from entry i is still running `depth` calls down;
\* N calls down it has visited an entry twice and never returns.
RECURSIVE Recurses(_, _)
Recurses(i, depth) ==
    IF depth = 0 THEN TRUE
    ELSE \E v \in Range(entries[i].Children) : Recurses(v, depth - 1)

\* treeSort(i) exhausts the stack.
StackOverflow(i) == Recurses(i, N)

\* The entries treeSort(i) is called on.
RECURSIVE Visited(_, _)
Visited(i, depth) ==
    IF depth = 0 THEN {}
    ELSE {i} \cup UNION { Visited(v, depth - 1) :
                             v \in Range(entries[i].Children) }

\* The children lists once treeSort(i) has returned: those of the entries
\* it was called on are sorted in place.
Sorted(i) ==
    { ch \in [1..N -> UNION { SortSort(entries[j].Children) \cup
                                {entries[j].Children} : j \in 1..N }] :
        \A j \in 1..N :
            IF j \in Visited(i, N)
            THEN ch[j] \in SortSort(entries[j].Children)
            ELSE ch[j] = entries[j].Children }

\* treeSort(i) over sorted children lists ch: each child, then its own list.
RECURSIVE treeSort(_, _)
RECURSIVE treeWalk(_, _)
treeSort(ch, i) == treeWalk(ch, ch[i])
treeWalk(ch, list) ==
    IF list = <<>> THEN <<>>
    ELSE <<Head(list)>> \o treeSort(ch, Head(list)) \o treeWalk(ch, Tail(list))

\* Lines 295-299: the numeric IDs of the flattened children.
RECURSIVE CommentIDs(_)
CommentIDs(list) ==
    IF list = <<>> THEN <<>>
    ELSE LET p == ParseID(entries[Head(list)].ID)
         IN  (IF p.ok THEN <<p.val>> ELSE <<>>) \o CommentIDs(Tail(list))

\* main, lines 281-313: one iteration of the third loop, and the summary
\* after the last.
WritePost ==
    /\ pc = "posts"
    /\ LET entry == entries[k]
       IN  IF ~isPost(entry)
           THEN /\ IF k = N
                   THEN /\ pc' = "done"
                        /\ log' = Append(log, Line("Wrote", 0))
                        /\ k' = k
                   ELSE /\ pc' = "posts"
                        /\ log' = log
                        /\ k' = k + 1
                /\ UNCHANGED <<entries, posts, count, drafts>>
           ELSE IF StackOverflow(k)
           THEN /\ pc' = "overflow"
                /\ UNCHANGED <<entries, posts, count, drafts, log, k>>
           ELSE \E ch \in Sorted(k) :
                LET list == treeSort(ch, k)
                    c == IF entry.Draft THEN count ELSE count + 1
                    d == IF entry.Draft THEN drafts + 1 ELSE drafts
                IN  /\ entries' =
                        [j \in 1..N |-> [entries[j] EXCEPT !.Children = ch[j]]]
                    /\ posts' = writeEntry(
                            [entry |-> k, Children |-> list,
                             Comments |-> CommentIDs(list)])
                    /\ count' = c
                    /\ drafts' = d
                    /\ IF k = N
                       THEN /\ pc' = "done"
                            /\ log' = Append(log, Line("Wrote", 0))
                            /\ k' = k
                       ELSE /\ pc' = "posts"
                            /\ log' = log
                            /\ k' = k + 1
    /\ UNCHANGED <<input, postmap, comments>>

Next == Start \/ IndexEntry \/ BuildHierarchy \/ WritePost

Spec == Init /\ [][Next]_vars

-----------------------------------------------------------------------------
(* Vocabulary of the properties.                                           *)

ChildrenOf(q) == Range(entries[q].Children)

\* The entries below q in the children relation, to the given depth.
RECURSIVE Below(_, _)
Below(q, depth) ==
    IF depth = 0 THEN {}
    ELSE UNION { {c} \cup Below(c, depth - 1) : c \in ChildrenOf(q) }

Pos(list, c) == CHOOSE x \in 1..Len(list) : list[x] = c

Written == { posts[a] : a \in 1..Len(posts) }

\* An entry carries a kind tag that is neither #post nor #comment.
HasOtherKind(e) ==
    \E x \in 1..Len(e.Tags) :
        /\ e.Tags[x].Scheme = KindScheme
        /\ e.Tags[x].Name \notin {KindPost, KindComment}

\* The name of the first tag of the kind scheme, "" without such a tag.
FirstKind(e) ==
    LET kinds == { x \in 1..Len(e.Tags) : e.Tags[x].Scheme = KindScheme }
    IN  IF kinds = {} THEN ""
        ELSE e.Tags[CHOOSE x \in kinds : \A y \in kinds : x <= y].Name

\* Neither a "related" link nor the in-reply-to source of e parses.
Unresolvable(e) ==
    /\ \A x \in 1..Len(e.Links) :
          e.Links[x].Rel = "related" => ~ParseUint(e.Links[x].Link).ok
    /\ ~ParseUint(e.Source).ok

\* The first loop is over: Reply and postmap are final.
Indexed == pc \in {"hierarchy", "posts", "done", "panic", "overflow"}

\* The second loop has gone through entry i.
Handled(i) ==
    \/ pc \in {"hierarchy", "panic"} /\ k > i
    \/ pc \in {"posts", "done", "overflow"}

\* Every comment with a parent is in its parent's children list.
TreeBuilt ==
    \A i \in 1..N :
        isComment(entries[i]) /\ Parent(entries[i]) # 0 =>
            /\ Parent(entries[i]) \in DOMAIN postmap
            /\ i \in ChildrenOf(postmap[Parent(entries[i])])

-----------------------------------------------------------------------------

\* C1: the list treeSort returns for a post holds every entry below the post
\* once, each entry immediately followed by the entries below it, and of two
\* children of one parent the one published earlier comes first, in the list
\* and in the post's Comments.
C1_PreorderByPublished ==
    \A r \in Written :
        LET list == r.Children
            p == r.entry
        IN  /\ Range(list) = Below(p, N)
            /\ Len(list) = Cardinality(Below(p, N))
            /\ \A x \in 1..Len(list) :
                  LET sub == Below(list[x], N)
                  IN  /\ x + Cardinality(sub) <= Len(list)
                      /\ { list[y] : y \in (x+1)..(x + Cardinality(sub)) } = sub
            /\ \A q \in {p} \cup Below(p, N) :
                  \A c1, c2 \in ChildrenOf(q) :
                      input[c1].Published < input[c2].Published =>
                          Pos(list, c1) < Pos(list, c2)
            /\ \A c1, c2 \in ChildrenOf(p) :
                  /\ input[c1].Published < input[c2].Published
                  /\ ParseID(entries[c1].ID).ok
                  /\ ParseID(entries[c2].ID).ok
                  => \E x, y \in 1..Len(r.Comments) :
                        /\ x < y
                        /\ r.Comments[x] = ParseID(entries[c1].ID).val
                        /\ r.Comments[y] = ParseID(entries[c2].ID).val

\* A post was written whose later child in the feed was published first,
\* both with numeric IDs of their own.
C1_Witness ==
    \E r \in Written :
        \E c1, c2 \in ChildrenOf(r.entry) :
            /\ c2 < c1
            /\ input[c1].Published < input[c2].Published
            /\ Len(r.Comments) = 2
            /\ r.Comments[1] # r.Comments[2]

C3_EveryCommentWritten ==
    pc = "done" =>
        \A i \in 1..N : isComment(entries[i]) => i \in Range(comments)

\* C3 amended: in a completed run writeComment was called for exactly the
\* comments whose parent identifier is not 0; an orphan is never written.
C3_ResolvedCommentsWritten ==
    /\ pc = "done" =>
          \A i \in 1..N :
              isComment(entries[i]) =>
                  (i \in Range(comments) <=> Parent(entries[i]) # 0)
    /\ \A i \in Range(comments) :
          isComment(entries[i]) /\ Parent(entries[i]) # 0

\* A completed run with a written comment and an orphan that was not.
C3_Witness ==
    /\ pc = "done"
    /\ comments # <<>>
    /\ \E i \in 1..N :
          isComment(entries[i]) /\ Parent(entries[i]) = 0
              /\ i \notin Range(comments)

\* C4: once the first loop is over, a comment whose parent identifier is not
\* 0 and not a key of postmap keeps the run from writing a post and from
\* completing (the second loop is still before it or has panicked), and a
\* comment whose parent is a key is in that entry's children list once the
\* second loop has gone through it, and is not where the run panics.
C4_DanglingParentAborts ==
    Indexed =>
        \A i \in 1..N :
            isComment(entries[i]) /\ Parent(entries[i]) # 0 =>
                IF Parent(entries[i]) \notin DOMAIN postmap
                THEN /\ posts = <<>>
                     /\ pc \in {"hierarchy", "panic"}
                     /\ k <= i
                ELSE /\ ~(pc = "panic" /\ k = i)
                     /\ Handled(i) =>
                           i \in ChildrenOf(postmap[Parent(entries[i])])

\* The run panicked on a dangling parent after attaching another comment.
C4_Witness ==
    /\ pc = "panic"
    /\ comments # <<>>
    /\ Parent(entries[k]) \notin DOMAIN postmap

\* C5 as stated: an entry with a kind tag other than #post and #comment is
\* not in postmap, in no children list, and no file is written for it.
C5_OtherKindIgnored ==
    \A i \in 1..N :
        HasOtherKind(input[i]) =>
            /\ \A id \in DOMAIN postmap : postmap[id] # i
            /\ \A j \in 1..N : i \notin ChildrenOf(j)
            /\ i \notin Range(comments)
            /\ \A r \in Written : r.entry # i

\* C6 as stated: a run on a feed without a post does not complete.
C6_NoPostIsFatal ==
    (\A i \in 1..N : ~isPost(input[i])) => pc # "done"

\* C6 amended: a feed without entries is fatal and nothing is written, no
\* other feed is fatal at that check, and a run that completes on a feed
\* with entries but without a post has written no post and counts 0 and 0.
C6_NoEntriesIsFatal ==
    /\ N = 0 => pc \in {"start", "fatal"}
    /\ pc = "fatal" => N = 0 /\ posts = <<>> /\ comments = <<>>
    /\ pc = "done" /\ (\A i \in 1..N : ~isPost(input[i])) =>
          posts = <<>> /\ count = 0 /\ drafts = 0

\* The run on the empty feed has aborted.
C6_Witness == pc = "fatal" /\ input = <<>>

\* C7 as stated: postmap holds only entries with a #post tag, each under the
\* number after "post-" in its ID.
C7_PostmapOnlyPosts ==
    \A id \in DOMAIN postmap :
        /\ isPost(input[postmap[id]])
        /\ input[postmap[id]].ID = PostID(id)

\* C7 amended: postmap holds only entries the first loop did not take for a
\* template (posts, comments and entries without a kind tag), each under
\* the number after "post-" in its ID.
C7_PostmapNoTemplates ==
    \A id \in DOMAIN postmap :
        /\ postmap[id] \in 1..N
        /\ FirstKind(input[postmap[id]]) \in {"", KindPost, KindComment}
        /\ input[postmap[id]].ID = PostID(id)

\* postmap holds a comment and an entry without a kind tag.
C7_Witness ==
    /\ \E id \in DOMAIN postmap : isComment(input[postmap[id]])
    /\ \E id \in DOMAIN postmap : input[postmap[id]].Tags = <<>>

\* C8 as stated: a file is written only after the second loop is over.
C8_NoFileBeforeTreeBuilt ==
    comments # <<>> \/ posts # <<>> => pc \in {"posts", "done", "overflow"}

\* C8 amended: a post file is written only after the second loop is over
\* and every comment with a parent is in its parent's children list; a run
\* that panics in the second loop has written no post file.
C8_NoPostBeforeTreeBuilt ==
    /\ posts # <<>> => pc \in {"posts", "done", "overflow"} /\ TreeBuilt
    /\ pc = "panic" => posts = <<>>

\* A post was written after two comments were attached and written.
C8_Witness == posts # <<>> /\ Len(comments) >= 2

\* C9 as stated: of two children of one parent published at the same
\* instant, the one earlier in the feed comes first in the flattened list.
C9_StableSort ==
    \A r \in Written :
        \A q \in {r.entry} \cup Below(r.entry, N) :
            \A c1, c2 \in ChildrenOf(q) :
                c1 < c2 /\ input[c1].Published = input[c2].Published =>
                    Pos(r.Children, c1) < Pos(r.Children, c2)

\* C10 as stated: once the second loop is over, no entry with a #post tag
\* reaches a cycle of the children relation, and treeSort returns.
C10_TreeSortTerminates ==
    /\ pc \in {"posts", "done"} =>
          \A p \in 1..N : isPost(entries[p]) => ~Recurses(p, N)
    /\ pc # "overflow"

=============================================================================
